---- MODULE Spec2Model ----
(***************************************************************************)
(* Model of project.py: an append-only key/value log (data.db) with an     *)
(* in-memory index (SimpleIndex) rebuilt at startup by replay_log.         *)
(*                                                                         *)
(* The file is a sequence of bytes.  Text is a sequence of code points;    *)
(* str.encode("utf-8") and the utf-8 / latin-1 decoding of do_get are      *)
(* modelled on code points below 2048 (one- and two-byte forms).           *)
(* A crash keeps every byte that os.fsync made stable and any prefix of    *)
(* what was flushed after it; bytes still in the Python buffer are lost.   *)
(***************************************************************************)
EXTENDS Integers, Sequences, FiniteSets, TLC

VARIABLES
    pc,        \* "down", "ready" (the command loop), a step inside do_set, or
               \* "failed" (an I/O error is propagating out of main)
    file,      \* data.db as the operating system sees it: a sequence of bytes
    stable,    \* number of leading bytes of file that os.fsync made durable
    buf,       \* bytes f.write put in the buffer of f, not yet flushed
    wpos,      \* position of the append handle f (what f.tell reports, less buf)
    entries,   \* SimpleIndex._entries: sequence of <<key_bytes, offset, val_len>>
    nReplayed, \* how many entries of the index replay_log added at startup
    cmd,       \* the command being handled or last handled: [op, key, value]
    prev,      \* the command completed before cmd, in this process
    off0,      \* do_set's local offset_before
    out,       \* what the command in cmd has printed so far
    idx0,      \* history: the index as it was when do_set was entered
    written,   \* history: the records do_set sent to the file, in file order
    nPuts,     \* number of SET commands started (bounded)
    nFaults    \* number of crashes and I/O failures (bounded)

vars == <<pc, file, stable, buf, wpos, entries, nReplayed, cmd, prev, off0, out,
          idx0, written, nPuts, nFaults>>

(* ---------------------------- bounds ----------------------------------- *)
MaxPuts == 2
MaxFaults == 1
MaxReplays == 2
MaxBytes == 9

\* texts the commands carry (code points): "a", "b"; "", "x", "e-acute"
KeyStrs == {<<97>>, <<98>>}
ValStrs == {<< >>, <<120>>, <<233>>}

(* ---------------------------- record codec ----------------------------- *)
HEADER_SIZE == 8

Min(a, b) == IF a < b THEN a ELSE b

\* struct.pack(">I", n): four bytes, most significant first
U32BE(n) == << (n \div 16777216) % 256, (n \div 65536) % 256, (n \div 256) % 256, n % 256 >>

\* struct.pack(HEADER_FMT, key_len, val_len)
PackHeader(key_len, val_len) == U32BE(key_len) \o U32BE(val_len)

\* Lengths of 65536 and more are all kept as this one value: every file of the
\* model is shorter, so a read of that many bytes comes back short either way.
LongRead == 256 * 256

\* struct.unpack(">I", b)
FromU32BE(b) == IF b[1] = 0 /\ b[2] = 0 THEN b[3] * 256 + b[4] ELSE LongRead

\* struct.unpack(HEADER_FMT, header) -> <<key_len, val_len>>
UnpackHeader(h) == << FromU32BE(SubSeq(h, 1, 4)), FromU32BE(SubSeq(h, 5, 8)) >>

\* str.encode("utf-8") on code points below 2048
RECURSIVE Utf8Encode(_)
Utf8Encode(s) ==
    IF s = << >> THEN << >>
    ELSE LET c == Head(s) IN
         (IF c < 128 THEN << c >> ELSE << 192 + (c \div 64), 128 + (c % 64) >>)
         \o Utf8Encode(Tail(s))

\* whether bytes.decode("utf-8") succeeds (one- and two-byte forms)
RECURSIVE Utf8Valid(_)
Utf8Valid(b) ==
    IF b = << >> THEN TRUE
    ELSE IF b[1] < 128 THEN Utf8Valid(Tail(b))
    ELSE IF b[1] >= 194 /\ b[1] <= 223 /\ Len(b) >= 2 /\ b[2] >= 128 /\ b[2] <= 191
         THEN Utf8Valid(Tail(Tail(b)))
    ELSE FALSE

RECURSIVE Utf8Decode(_)
Utf8Decode(b) ==
    IF b = << >> THEN << >>
    ELSE IF b[1] < 128 THEN << b[1] >> \o Utf8Decode(Tail(b))
    ELSE << (b[1] - 192) * 64 + (b[2] - 128) >> \o Utf8Decode(Tail(Tail(b)))

\* do_get's decoding: utf-8, and latin-1 (one code point per byte) if that fails
DecodeValue(b) == IF Utf8Valid(b) THEN Utf8Decode(b) ELSE b

\* the bytes do_set writes for one record: header, key, value
EncodeRecord(key, value) == PackHeader(Len(key), Len(value)) \o key \o value

(* ---------------------------- file reads ------------------------------- *)
\* seek(pos) then read(n): the bytes available, possibly fewer than n
ReadAt(f, pos, n) ==
    IF pos >= Len(f) THEN << >> ELSE SubSeq(f, pos + 1, Min(pos + n, Len(f)))

(* ---------------------------- SimpleIndex ------------------------------ *)
NoEntry == << >>

\* a bug: update writes over the newest entry instead of appending
IndexUpdateOverwrite(es, key_bytes, offset, val_len) ==
    IF es = << >> THEN << <<key_bytes, offset, val_len>> >>
    ELSE [es EXCEPT ![Len(es)] = <<key_bytes, offset, val_len>>]

\* a bug: update drops the older entries of the key, as a dict would
IndexUpdateDedup(es, key_bytes, offset, val_len) ==
    Append(SelectSeq(es, LAMBDA e : e[1] # key_bytes), <<key_bytes, offset, val_len>>)

\* SimpleIndex.update
IndexUpdate(es, key_bytes, offset, val_len) == Append(es, <<key_bytes, offset, val_len>>)

\* a bug: the scan runs from the oldest entry, so the first write wins
RECURSIVE IndexGetOldestFrom(_, _, _)
IndexGetOldestFrom(es, key_bytes, i) ==
    IF i > Len(es) THEN << >>
    ELSE IF es[i][1] = key_bytes THEN << es[i][2], es[i][3] >>
    ELSE IndexGetOldestFrom(es, key_bytes, i + 1)

IndexGetOldest(es, key_bytes) == IndexGetOldestFrom(es, key_bytes, 1)

\* SimpleIndex.get: scan from the end, first match; NoEntry stands for None
RECURSIVE IndexGetFrom(_, _, _)
IndexGetFrom(es, key_bytes, i) ==
    IF i = 0 THEN NoEntry
    ELSE IF es[i][1] = key_bytes THEN << es[i][2], es[i][3] >>
    ELSE IndexGetFrom(es, key_bytes, i - 1)

\* a bug: the backward scan starts one entry too early and misses the newest
IndexGetSkipLast(es, key_bytes) ==
    IF es = << >> THEN << >> ELSE IndexGetFrom(es, key_bytes, Len(es) - 1)

IndexGet(es, key_bytes) == IndexGetFrom(es, key_bytes, Len(es))

(* ---------------------------- replay_log ------------------------------- *)
\* a bug: the key length is left out of the offset
ReplayValueOffsetNoKey(pos, key_len) == pos + HEADER_SIZE

\* line 84: the offset replay_log stores for the record that begins at pos
ReplayValueOffset(pos, key_len) == pos + HEADER_SIZE + key_len

\* a bug: the loop without the test of line 81, so a short value is indexed
RECURSIVE ReplayLoopNoShortValue(_, _, _, _)
ReplayLoopNoShortValue(f, fpos, pos, es) ==
    LET header == ReadAt(f, fpos, HEADER_SIZE) IN
    IF Len(header) < HEADER_SIZE THEN es
    ELSE LET key_len == UnpackHeader(header)[1]
             val_len == UnpackHeader(header)[2]
             key     == ReadAt(f, fpos + HEADER_SIZE, key_len)
         IN  IF Len(key) < key_len THEN es
             ELSE ReplayLoopNoShortValue(f, fpos + HEADER_SIZE + key_len + val_len,
                                         pos + HEADER_SIZE + key_len + val_len,
                                         Append(es, <<key, pos + HEADER_SIZE + key_len, val_len>>))

\* the loop of replay_log: fpos is the read position of f, pos the local pos
RECURSIVE ReplayLoop(_, _, _, _)
ReplayLoop(f, fpos, pos, es) ==
    LET header == ReadAt(f, fpos, HEADER_SIZE) IN
    IF Len(header) < HEADER_SIZE THEN es
    ELSE LET key_len == UnpackHeader(header)[1]
             val_len == UnpackHeader(header)[2]
             key     == ReadAt(f, fpos + HEADER_SIZE, key_len)
         IN  IF Len(key) < key_len THEN es
             ELSE LET value == ReadAt(f, fpos + HEADER_SIZE + key_len, val_len) IN
                  IF Len(value) < val_len THEN es
                  ELSE ReplayLoop(f, fpos + HEADER_SIZE + key_len + val_len,
                                  pos + HEADER_SIZE + key_len + val_len,
                                  IndexUpdate(es, key, ReplayValueOffset(pos, key_len), val_len))

\* whether the loop, from read position fpos, comes to f.read(key_len) or
\* f.read(val_len) with a length of 65536 or more (lines 77 and 80); read
\* allocates that many bytes before it reads, whatever the file holds
RECURSIVE ReplayAsksLong(_, _)
ReplayAsksLong(f, fpos) ==
    LET header == ReadAt(f, fpos, HEADER_SIZE) IN
    IF Len(header) < HEADER_SIZE THEN FALSE
    ELSE LET key_len == UnpackHeader(header)[1]
             val_len == UnpackHeader(header)[2]
         IN  IF key_len = LongRead THEN TRUE
             ELSE IF Len(ReadAt(f, fpos + HEADER_SIZE, key_len)) < key_len THEN FALSE
             ELSE IF val_len = LongRead THEN TRUE
             ELSE IF Len(ReadAt(f, fpos + HEADER_SIZE + key_len, val_len)) < val_len THEN FALSE
             ELSE ReplayAsksLong(f, fpos + HEADER_SIZE + key_len + val_len)

\* the read positions at which the loop reads a header, in order (line 73)
RECURSIVE ReplayScan(_, _)
ReplayScan(f, fpos) ==
    LET header == ReadAt(f, fpos, HEADER_SIZE) IN
    IF Len(header) < HEADER_SIZE THEN << fpos >>
    ELSE LET key_len == UnpackHeader(header)[1]
             val_len == UnpackHeader(header)[2]
         IN  IF Len(ReadAt(f, fpos + HEADER_SIZE, key_len)) < key_len THEN << fpos >>
             ELSE IF Len(ReadAt(f, fpos + HEADER_SIZE + key_len, val_len)) < val_len
                  THEN << fpos >>
             ELSE << fpos >> \o ReplayScan(f, fpos + HEADER_SIZE + key_len + val_len)

ReplayLog(f, es) == ReplayLoop(f, 0, 0, es)

(* ---------------------------- commands --------------------------------- *)
\* a bug: the key length is left out of the offset
ValueOffsetNoKey(offset_before, key_len) == offset_before + HEADER_SIZE

\* line 106: the offset do_set stores
ValueOffset(offset_before, key_len) == offset_before + HEADER_SIZE + key_len

NoCmd == [op |-> "none", key |-> << >>, value |-> << >>]
NoOut == [kind |-> "none", s |-> << >>]

\* a bug: the test looks at the length, so an empty value counts as absent
NotFoundOrEmpty(found) == found = << >> \/ found[2] = 0

\* do_get's test `if not found`: None is falsy, a 2-tuple is truthy
NotFound(found) == found = NoEntry

\* what do_get prints for key_str in the current state
GetOutput(f, es, key_str) ==
    LET found == IndexGet(es, Utf8Encode(key_str)) IN
    IF NotFound(found) THEN [kind |-> "NOTFOUND", s |-> << >>]
    ELSE [kind |-> "value", s |-> DecodeValue(ReadAt(f, found[1], found[2]))]

Init ==
    /\ pc = "down"
    /\ file = << >>
    /\ stable = 0
    /\ buf = << >>
    /\ wpos = 0
    /\ entries = << >>
    /\ nReplayed = 0
    /\ cmd = NoCmd
    /\ prev = NoCmd
    /\ off0 = 0
    /\ out = NoOut
    /\ idx0 = << >>
    /\ written = << >>
    /\ nPuts = 0
    /\ nFaults = 0

\* the record of cmd, as the history keeps it
WrittenRec(start) ==
    [key |-> cmd.key, value |-> cmd.value, k |-> Utf8Encode(cmd.key),
     v |-> Utf8Encode(cmd.value), start |-> start, acked |-> FALSE, live |-> TRUE]

\* the history once bytes of cmd's record reached the file at offset start
NoteWritten(w, start) ==
    IF w # << >> /\ w[Len(w)].start = start THEN w ELSE Append(w, WrittenRec(start))

\* the memory of a process that ended
ProcessGone ==
    /\ pc' = "down"
    /\ buf' = << >>
    /\ wpos' = 0
    /\ entries' = << >>
    /\ nReplayed' = 0
    /\ cmd' = NoCmd
    /\ prev' = NoCmd
    /\ off0' = 0
    /\ out' = NoOut
    /\ idx0' = << >>

\* main up to the command loop: ensure_db_exists, replay_log into a fresh
\* index, open "ab+" and seek to the end
Start ==
    /\ pc = "down"
    /\ pc' = "ready"
    /\ entries' = ReplayLog(file, << >>)
    /\ nReplayed' = Len(entries')
    /\ idx0' = entries'
    /\ wpos' = Len(file)
    /\ written' = [i \in 1..Len(written) |-> [written[i] EXCEPT !.live = FALSE]]
    /\ out' = NoOut
    /\ UNCHANGED <<file, stable, buf, cmd, prev, off0, nPuts, nFaults>>

\* main ends in replay_log: f.read of a length of 65536 or more (up to 2^32 - 1)
\* could not allocate its buffer and raised MemoryError; no command is read
StartRaise ==
    /\ pc = "down"
    /\ ReplayAsksLong(file, 0)
    /\ out' = [kind |-> "MemoryError", s |-> << >>]
    /\ UNCHANGED <<pc, file, stable, buf, wpos, entries, nReplayed, cmd, prev, off0, idx0,
                   written, nPuts, nFaults>>

\* a bug: do_set updates the index before it writes
SetWriteIndexFirst(key_str, value_str) ==
    /\ pc = "ready"
    /\ nPuts < MaxPuts
    /\ pc' = "written"
    /\ prev' = cmd
    /\ cmd' = [op |-> "SET", key |-> key_str, value |-> value_str]
    /\ out' = NoOut
    /\ idx0' = entries
    /\ off0' = wpos + Len(buf)
    /\ buf' = buf \o EncodeRecord(Utf8Encode(key_str), Utf8Encode(value_str))
    /\ entries' = Append(entries, << Utf8Encode(key_str),
                                     wpos + Len(buf) + HEADER_SIZE + Len(Utf8Encode(key_str)),
                                     Len(Utf8Encode(value_str)) >>)
    /\ nPuts' = nPuts + 1
    /\ UNCHANGED <<file, stable, wpos, nReplayed, written, nFaults>>

\* a bug: f.tell is called after the writes, so offset_before is the record's end
SetWriteTellAfter(key_str, value_str) ==
    /\ pc = "ready"
    /\ nPuts < MaxPuts
    /\ pc' = "written"
    /\ prev' = cmd
    /\ cmd' = [op |-> "SET", key |-> key_str, value |-> value_str]
    /\ out' = NoOut
    /\ idx0' = entries
    /\ buf' = buf \o EncodeRecord(Utf8Encode(key_str), Utf8Encode(value_str))
    /\ off0' = wpos + Len(buf')
    /\ nPuts' = nPuts + 1
    /\ UNCHANGED <<file, stable, wpos, entries, nReplayed, written, nFaults>>

\* do_set, lines 91-102: encode, f.tell, three f.write calls into the buffer
SetWrite(key_str, value_str) ==
    /\ pc = "ready"
    /\ nPuts < MaxPuts
    /\ pc' = "written"
    /\ prev' = cmd
    /\ cmd' = [op |-> "SET", key |-> key_str, value |-> value_str]
    /\ out' = NoOut
    /\ idx0' = entries
    /\ off0' = wpos + Len(buf)
    /\ buf' = buf \o EncodeRecord(Utf8Encode(key_str), Utf8Encode(value_str))
    /\ nPuts' = nPuts + 1
    /\ UNCHANGED <<file, stable, wpos, entries, nReplayed, written, nFaults>>

\* a bug: the file is open for writing from the start, so a flush replaces it
SetFlushRewrite ==
    /\ pc = "written"
    /\ pc' = "flushed"
    /\ written' = NoteWritten(written, Len(file))
    /\ file' = buf
    /\ wpos' = Len(file')
    /\ buf' = << >>
    /\ UNCHANGED <<stable, entries, nReplayed, cmd, prev, off0, out, idx0, nPuts, nFaults>>

\* fsync_file, line 62: f.flush() appends the buffer to the file (O_APPEND)
SetFlush ==
    /\ pc = "written"
    /\ pc' = "flushed"
    /\ written' = NoteWritten(written, Len(file))
    /\ file' = file \o buf
    /\ wpos' = Len(file')
    /\ buf' = << >>
    /\ UNCHANGED <<stable, entries, nReplayed, cmd, prev, off0, out, idx0, nPuts, nFaults>>

\* a bug: fsync_file only flushes, nothing is made durable
SetSyncSkipped ==
    /\ pc = "flushed"
    /\ pc' = "synced"
    /\ UNCHANGED <<file, stable, buf, wpos, entries, nReplayed, cmd, prev, off0, out, idx0,
                   written, nPuts, nFaults>>

\* fsync_file, line 63: os.fsync makes the whole file durable
SetSync ==
    /\ pc = "flushed"
    /\ pc' = "synced"
    /\ stable' = Len(file)
    /\ UNCHANGED <<file, buf, wpos, entries, nReplayed, cmd, prev, off0, out, idx0,
                   written, nPuts, nFaults>>

\* do_set, lines 106-107: value_offset and index.update
SetIndex ==
    /\ pc = "synced"
    /\ pc' = "indexed"
    /\ LET key == Utf8Encode(cmd.key)
           value == Utf8Encode(cmd.value)
       IN entries' = IndexUpdate(entries, key, ValueOffset(off0, Len(key)), Len(value))
    /\ UNCHANGED <<file, stable, buf, wpos, nReplayed, cmd, prev, off0, out, idx0,
                   written, nPuts, nFaults>>

\* do_set, lines 109-110: print("OK")
SetAck ==
    /\ pc = "indexed"
    /\ pc' = "ready"
    /\ out' = [kind |-> "OK", s |-> << >>]
    /\ written' = [written EXCEPT ![Len(written)].acked = TRUE]
    /\ UNCHANGED <<file, stable, buf, wpos, entries, nReplayed, cmd, prev, off0, idx0,
                   nPuts, nFaults>>

\* f.write raises (lines 99-102): nothing of the record is in the buffer
SetWriteFail(key_str, value_str) ==
    /\ pc = "ready"
    /\ nPuts < MaxPuts
    /\ nFaults < MaxFaults
    /\ pc' = "failed"
    /\ prev' = cmd
    /\ cmd' = [op |-> "SET", key |-> key_str, value |-> value_str]
    /\ out' = NoOut
    /\ idx0' = entries
    /\ off0' = wpos + Len(buf)
    /\ nPuts' = nPuts + 1
    /\ nFaults' = nFaults + 1
    /\ UNCHANGED <<file, stable, buf, wpos, entries, nReplayed, written>>

\* f.flush raises (line 62) after n bytes of the buffer reached the file
SetFlushFail(n) ==
    /\ pc = "written"
    /\ nFaults < MaxFaults
    /\ n >= 0 /\ n < Len(buf)
    /\ pc' = "failed"
    /\ written' = IF n > 0 THEN NoteWritten(written, Len(file)) ELSE written
    /\ file' = file \o SubSeq(buf, 1, n)
    /\ wpos' = Len(file')
    /\ buf' = SubSeq(buf, n + 1, Len(buf))
    /\ nFaults' = nFaults + 1
    /\ UNCHANGED <<stable, entries, nReplayed, cmd, prev, off0, out, idx0, nPuts>>

\* os.fsync raises (line 63)
SetSyncFail ==
    /\ pc = "flushed"
    /\ nFaults < MaxFaults
    /\ pc' = "failed"
    /\ nFaults' = nFaults + 1
    /\ UNCHANGED <<file, stable, buf, wpos, entries, nReplayed, cmd, prev, off0, out,
                   idx0, written, nPuts>>

\* the error leaves main: the with block (line 143) closes f, which may still
\* flush n bytes of what is left in the buffer, and the process ends
Abort(n) ==
    /\ pc = "failed"
    /\ n >= 0 /\ n <= Len(buf)
    /\ written' = IF n > 0 THEN NoteWritten(written, off0) ELSE written
    /\ file' = file \o SubSeq(buf, 1, n)
    /\ ProcessGone
    /\ UNCHANGED <<stable, nPuts, nFaults>>

\* a bug: do_get seeks and reads through the append handle f itself
DoGetSharedHandle(key_str) ==
    /\ pc = "ready"
    /\ prev' = cmd
    /\ cmd' = [op |-> "GET", key |-> key_str, value |-> << >>]
    /\ out' = GetOutput(file, entries, key_str)
    /\ LET found == IndexGet(entries, Utf8Encode(key_str))
       IN wpos' = IF found = << >> THEN wpos
                  ELSE found[1] + Len(ReadAt(file, found[1], found[2]))
    /\ UNCHANGED <<pc, file, stable, buf, entries, nReplayed, off0, idx0, written,
                   nPuts, nFaults>>

\* do_get: index lookup, f.flush (the buffer is empty between commands), read
\* through a separate handle, decode, print
DoGet(key_str) ==
    /\ pc = "ready"
    /\ prev' = cmd
    /\ cmd' = [op |-> "GET", key |-> key_str, value |-> << >>]
    /\ out' = GetOutput(file, entries, key_str)
    /\ UNCHANGED <<pc, file, stable, buf, wpos, entries, nReplayed, off0, idx0, written,
                   nPuts, nFaults>>

\* EXIT or end of input: main returns, the with block closes f
Exit ==
    /\ pc = "ready"
    /\ ProcessGone
    /\ UNCHANGED <<file, stable, written, nPuts, nFaults>>

\* the process dies (kill, power loss) at any point: the buffer is lost, the
\* file keeps its stable bytes and any prefix n of the bytes flushed since
Crash(n) ==
    /\ pc # "down"
    /\ nFaults < MaxFaults
    /\ n >= stable /\ n <= Len(file)
    /\ file' = SubSeq(file, 1, n)
    /\ written' = SelectSeq(written, LAMBDA w : w.start < n)
    /\ nFaults' = nFaults + 1
    /\ ProcessGone
    /\ UNCHANGED <<stable, nPuts>>

Next ==
    \/ Start
    \/ StartRaise
    \/ \E k \in KeyStrs, v \in ValStrs : SetWrite(k, v)
    \/ SetFlush
    \/ SetSync
    \/ SetIndex
    \/ SetAck
    \/ \E k \in KeyStrs, v \in ValStrs : SetWriteFail(k, v)
    \/ \E n \in 0..Len(buf) : SetFlushFail(n)
    \/ SetSyncFail
    \/ \E n \in 0..Len(buf) : Abort(n)
    \/ \E k \in KeyStrs : DoGet(k)
    \/ Exit
    \/ \E n \in stable..Len(file) : Crash(n)

Spec == Init /\ [][Next]_vars

\* another program shortens data.db to n bytes while this one waits for a command
Truncate(n) ==
    /\ pc = "ready"
    /\ nFaults < MaxFaults
    /\ n >= 0 /\ n < Len(file)
    /\ file' = SubSeq(file, 1, n)
    /\ stable' = Min(stable, n)
    /\ written' = SelectSeq(written, LAMBDA w : w.start < n)
    /\ nFaults' = nFaults + 1
    /\ UNCHANGED <<pc, buf, wpos, entries, nReplayed, cmd, prev, off0, out, idx0, nPuts>>

NextTrunc ==
    \/ Next
    \/ \E n \in 0..Len(file) : Truncate(n)

\* the program with a file that can be truncated under it
SpecTrunc == Init /\ [][NextTrunc]_vars

\* replay_log called once more on the index it already filled, before any
\* command is read: the log is the one the first call read
ReplayAgain ==
    /\ pc = "ready"
    /\ cmd = NoCmd
    /\ Len(entries) < MaxReplays * Len(ReplayLog(file, << >>))
    /\ entries' = ReplayLog(file, entries)
    /\ nReplayed' = Len(entries')
    /\ idx0' = entries'
    /\ UNCHANGED <<pc, file, stable, buf, wpos, cmd, prev, off0, out, written, nPuts, nFaults>>

NextReplay ==
    \/ Next
    \/ ReplayAgain

\* the program with replay_log repeated at startup
SpecReplay == Init /\ [][NextReplay]_vars

\* every content of data.db of at most MaxBytes bytes drawn from ByteVals
ByteVals == {0, 1, 97}
Contents == UNION {[1..n -> ByteVals] : n \in 0..MaxBytes}

\* the program started on a data.db it did not write
InitBytes ==
    /\ pc = "down"
    /\ file \in Contents
    /\ stable = Len(file)
    /\ buf = << >>
    /\ wpos = 0
    /\ entries = << >>
    /\ nReplayed = 0
    /\ cmd = NoCmd
    /\ prev = NoCmd
    /\ off0 = 0
    /\ out = NoOut
    /\ idx0 = << >>
    /\ written = << >>
    /\ nPuts = 0
    /\ nFaults = 0

NextBytes ==
    \/ Start
    \/ StartRaise
    \/ \E k \in KeyStrs : DoGet(k)
    \/ Exit

\* startup and reads on any content of data.db
SpecBytes == InitBytes /\ [][NextBytes]_vars

(* ---------------------------- history helpers -------------------------- *)
Up == pc # "down"

RecLen(w) == HEADER_SIZE + Len(w.k) + Len(w.v)

\* where the bytes of the i-th record of the history stop in the file
StopOf(i) == IF i < Len(written) THEN written[i + 1].start ELSE Len(file)

\* all the bytes of the i-th record are in the file
Complete(i) == written[i].start + RecLen(written[i]) <= StopOf(i)

\* the file is the records of the history in order, each cut where the next begins
RECURSIVE FileOf(_)
FileOf(i) ==
    IF i = 0 THEN << >>
    ELSE FileOf(i - 1) \o
         SubSeq(EncodeRecord(written[i].k, written[i].v), 1, StopOf(i) - written[i].start)

HistoryMatchesFile == FileOf(Len(written)) = file

\* the largest member of a set of record numbers; 0 if there is none
LastOf(S) == IF S = {} THEN 0 ELSE CHOOSE i \in S : \A j \in S : j <= i

IsAcked(w) == w.acked
IsLiveAcked(w) == w.acked /\ w.live

\* the last acknowledged put of this key, by any process
LastAcked(key_str) ==
    LastOf({i \in 1..Len(written) : written[i].key = key_str /\ IsAcked(written[i])})

\* the last acknowledged put of this key by the running process
LastLiveAcked(key_str) ==
    LastOf({i \in 1..Len(written) : written[i].key = key_str /\ IsLiveAcked(written[i])})

ValueOut(value_str) == [kind |-> "value", s |-> value_str]

\* the index entry that belongs to a record of the history
EntryOf(w) == << w.k, w.start + HEADER_SIZE + Len(w.k), Len(w.v) >>

(* ---------------------------- claims ----------------------------------- *)

\* C1 (as claimed): once put(k, v) was acknowledged, get(k) returns v in the
\* command loop of this and every later process, unless a later put to k
\* replaced it (read in the claim's favour: a later put to k whose record
\* reached the log counts as replacing v even when no OK was printed for it).
C1_AckedPutIsDurable ==
    pc = "ready" =>
        \A k \in KeyStrs :
            LET i == LastAcked(k)
            IN i > 0 => \E j \in i..Len(written) :
                           /\ written[j].key = k
                           /\ GetOutput(file, entries, k) = ValueOut(written[j].value)

\* C2 (as claimed): every index entry (k, offset, length) designates log bytes
\* that are exactly the value of a put(k, v) whose record is completely in the log.
C2_NoCorruptedMapping ==
    Up => \A e \in 1..Len(entries) :
            \E i \in 1..Len(written) :
                /\ Complete(i)
                /\ entries[e] = EntryOf(written[i])
                /\ ReadAt(file, entries[e][2], entries[e][3]) = written[i].v

\* C3: in the command loop, for every key that a put of this process wrote,
\* get returns the value of the most recent such put; a get that was just
\* executed printed that value.
C3_LastWriteWins ==
    pc = "ready" =>
        \A k \in KeyStrs :
            LET i == LastLiveAcked(k)
            IN i > 0 =>
                 /\ GetOutput(file, entries, k) = ValueOut(written[i].value)
                 /\ (cmd.op = "GET" /\ cmd.key = k) => out = ValueOut(written[i].value)

\* a get of a key this process wrote twice, with another value the second time
C3_Witness ==
    /\ pc = "ready" /\ cmd.op = "GET" /\ out.kind = "value"
    /\ \E i, j \in 1..Len(written) :
          /\ i < j /\ j = LastLiveAcked(cmd.key)
          /\ IsLiveAcked(written[i]) /\ written[i].key = cmd.key
          /\ written[i].value # written[j].value
          /\ out.s = written[j].value

\* C4: a get(k) that directly follows put(k, v) prints exactly v.
C4_RoundTrip ==
    (pc = "ready" /\ cmd.op = "GET" /\ prev.op = "SET" /\ prev.key = cmd.key) =>
        /\ out = ValueOut(prev.value)
        /\ Len(out.s) = Len(prev.value)

\* put then get of a two-byte character, on a log that holds a partial record
C4_Witness ==
    /\ pc = "ready" /\ cmd.op = "GET" /\ prev.op = "SET" /\ prev.key = cmd.key
    /\ prev.value = <<233>> /\ out.s = <<233>>
    /\ \E i \in 1..Len(written) : ~Complete(i)

\* the log is complete records followed by a strict, non-empty prefix of one more
CleanWithPartialTail ==
    /\ written # << >>
    /\ \A i \in 1..(Len(written) - 1) : Complete(i)
    /\ ~Complete(Len(written))

\* C5: replay of n complete records followed by a strict non-empty prefix of
\* one more leaves exactly the n entries of the complete records, in log order.
C5_CrashTolerantReplay ==
    (pc = "ready" /\ cmd = NoCmd /\ CleanWithPartialTail) =>
        /\ Len(entries) = Len(written) - 1
        /\ \A i \in 1..Len(entries) : entries[i] = EntryOf(written[i])

\* a start on one complete record followed by a record cut inside its value
C5_Witness ==
    /\ pc = "ready" /\ cmd = NoCmd /\ CleanWithPartialTail
    /\ Len(entries) = 1
    /\ LET w == written[Len(written)]
       IN Len(file) - w.start > HEADER_SIZE + Len(w.k)

\* C6: without crash or I/O failure, replay of the log into a fresh index
\* gives the entries of the live index, in the same order, and so the same
\* result of get for every key.
C6_ReplayRebuildsIndex ==
    (nFaults = 0 /\ pc \in {"ready", "indexed"}) =>
        /\ ReplayLog(file, << >>) = entries
        /\ \A k \in KeyStrs :
              GetOutput(file, ReplayLog(file, << >>), k) = GetOutput(file, entries, k)

\* a live index of one replayed entry and one entry made by a put
C6_Witness ==
    /\ nFaults = 0 /\ pc = "ready"
    /\ nReplayed = 1 /\ Len(entries) = 2
    /\ entries[2][3] = 2

C8_ShortReadIsAnError ==
    pc = "ready" =>
        \A k \in KeyStrs :
            LET found == IndexGet(entries, Utf8Encode(k))
            IN (found # NoEntry /\ found[1] + found[2] > Len(file)) =>
                  GetOutput(file, entries, k).kind = "ioerror"

\* C9: when the write, the flush or the sync of do_set fails, the index is
\* what it was when do_set was entered and nothing was printed.
C9_FailedPutLeavesIndex ==
    pc = "failed" =>
        /\ entries = idx0
        /\ out = NoOut
        /\ \A i \in 1..Len(written) : written[i].live /\ written[i].start >= off0
                                         => ~written[i].acked

\* a failed flush that left part of the record in the file, index not empty
C9_Witness ==
    /\ pc = "failed"
    /\ Len(file) > off0
    /\ buf # << >>
    /\ entries # << >>

\* C10: get(k) takes the not-found branch exactly when no entry has key k; a
\* get(k) that follows put(k, "") prints the empty value, not not-found.
C10_NotFoundIffNoEntry ==
    pc = "ready" =>
        /\ \A k \in KeyStrs :
              (GetOutput(file, entries, k).kind = "NOTFOUND")
                 <=> ~(\E e \in 1..Len(entries) : entries[e][1] = Utf8Encode(k))
        /\ cmd.op = "GET" =>
              ((out.kind = "NOTFOUND")
                 <=> ~(\E e \in 1..Len(entries) : entries[e][1] = Utf8Encode(cmd.key)))
        /\ (cmd.op = "GET" /\ prev.op = "SET" /\ prev.key = cmd.key /\ prev.value = << >>) =>
              out = ValueOut(<< >>)

\* the two outcomes side by side: get of a key just set to "" printed the empty
\* value, and the other key has no entry
C10_Witness ==
    /\ pc = "ready" /\ cmd.op = "GET" /\ prev.op = "SET" /\ prev.key = cmd.key
    /\ prev.value = << >>
    /\ out.kind = "value" /\ out.s = << >>
    /\ \E k \in KeyStrs : GetOutput(file, entries, k).kind = "NOTFOUND"


\* the log as it was when the do_set of cmd was entered
FileAtEntry == SubSeq(file, 1, Min(off0, Len(file)))

\* do_set is under way or was the last command to complete
InOrAfterPut ==
    /\ cmd.op = "SET"
    /\ pc \in {"written", "flushed", "synced", "indexed", "ready", "failed"}

\* C11: during and after put(a, v), get(b) for every other key b gives what it
\* gave when the put was entered: the same value, or not-found.
C11_IndependentKeys ==
    InOrAfterPut =>
        \A b \in KeyStrs \ {cmd.key} :
            GetOutput(file, entries, b) = GetOutput(FileAtEntry, idx0, b)

\* a put to one key has completed while the other key holds a value, and
\* the newest entry before the put was the other key's
C11_Witness ==
    /\ pc = "ready" /\ cmd.op = "SET" /\ out.kind = "OK"
    /\ idx0 # << >> /\ idx0[Len(idx0)][1] # Utf8Encode(cmd.key)
    /\ \E b \in KeyStrs \ {cmd.key} :
          /\ GetOutput(file, entries, b).kind = "value"
          /\ GetOutput(file, entries, b).s # << >>


\* the keys of an index
KeysOf(es) == {es[i][1] : i \in 1..Len(es)}

\* the index holds what replay_log put there and nothing else
OnlyReplayed == pc = "ready" /\ cmd = NoCmd /\ nReplayed = Len(entries)

\* C12: an index filled by replaying the unmodified log once, twice or more
\* resolves every key as an index filled by one replay into a fresh index;
\* the number of entries is a multiple of that of one replay.
C12_IdempotentReplay ==
    OnlyReplayed =>
        LET once == ReplayLog(file, << >>) IN
        /\ \A kb \in KeysOf(entries) \cup KeysOf(once) \cup {Utf8Encode(k) : k \in KeyStrs} :
              IndexGet(entries, kb) = IndexGet(once, kb)
        /\ \E r \in 1..MaxReplays : Len(entries) = r * Len(once)
        /\ SubSeq(entries, 1, Len(once)) = once

\* the log was replayed twice into the same index; it holds two records of one key
C12_Witness ==
    /\ OnlyReplayed
    /\ Len(entries) = 4
    /\ entries[1][1] = entries[2][1] /\ entries[1][3] # entries[2][3]
    /\ entries[3] = entries[1] /\ entries[4] = entries[2]


IsPrefix(a, b) == Len(a) <= Len(b) /\ SubSeq(b, 1, Len(a)) = a

\* the step is the death of the process, which may cost the unsynced bytes
ProcessDies == \E n \in stable..Len(file) : Crash(n)

\* the bytes of the record of cmd
RecordOfCmd == EncodeRecord(Utf8Encode(cmd.key), Utf8Encode(cmd.value))

\* C13 (as claimed): every step of the program keeps the log as a prefix of
\* the new log, and a step that changes the log is a put that adds exactly
\* one encoded record at the previous end of file.
C13_AppendOnlyWholeRecords ==
    [][ProcessDies \/
       /\ IsPrefix(file, file')
       /\ file' # file => (cmd.op = "SET" /\ file' = file \o RecordOfCmd)]_vars

\* C13 (amended): every step of the program keeps the log as a prefix of the
\* new log; only put changes it, with bytes of its record placed from the end
\* of file it found: the whole record when the flush completes, a part of it
\* when the flush fails.
C13_AppendOnly ==
    [][ProcessDies \/
       /\ IsPrefix(file, file')
       /\ file' # file =>
             /\ cmd.op = "SET"
             /\ pc \in {"written", "failed"}
             /\ off0 <= Len(file)
             /\ IsPrefix(SubSeq(file', off0 + 1, Len(file')), RecordOfCmd)
             /\ pc' = "flushed" => (off0 = Len(file) /\ file' = file \o RecordOfCmd)]_vars

\* a flush has put a whole record behind a log that was not empty
C13_Witness ==
    /\ pc = "flushed" /\ off0 > 0
    /\ file = FileAtEntry \o RecordOfCmd


\* the step is a get: the command loop takes a GET and returns to the loop
GetStep ==
    /\ pc = "ready" /\ pc' = "ready"
    /\ prev' = cmd
    /\ \E k \in KeyStrs : cmd' = [op |-> "GET", key |-> k, value |-> << >>]

\* C14: a get, found or not, leaves the log, the index and the position of the
\* append handle as they were; a put that follows a get takes the end of the
\* file as the offset of its record.
C14_GetIsReadOnly ==
    [][/\ GetStep => /\ file' = file /\ stable' = stable
                     /\ entries' = entries
                     /\ wpos' = wpos /\ buf' = buf
       /\ (pc' = "written" /\ prev'.op = "GET") => off0' = Len(file')]_vars

\* a put was entered right after a get that found its key
C14_Witness ==
    /\ pc = "written" /\ prev.op = "GET"
    /\ IndexGet(entries, Utf8Encode(prev.key)) # NoEntry
    /\ off0 = Len(file) /\ off0 > 0


\* the largest value offset among the entries of an index with this key
MaxOffset(es, key_bytes) ==
    LET S == {es[i][2] : i \in {j \in 1..Len(es) : es[j][1] = key_bytes}}
    IN CHOOSE m \in S : \A x \in S : x <= m

Old == {i \in 1..Len(written) : ~written[i].live}

\* the log this process started on was complete records and at most a partial tail
CleanAtStart == \A i \in Old : (i + 1) \in Old => Complete(i)

\* the puts of this process that reached index.update
LivePuts ==
    Cardinality({i \in 1..Len(written) : IsLiveAcked(written[i])})
        + (IF pc = "indexed" THEN 1 ELSE 0)

\* C16: a put leaves the entries it found unchanged and in order and adds one
\* entry at the end, once; nothing else changes the index of a running
\* process, so after a replay of n complete records and m puts it holds n + m.
C16_IndexOnlyGrows ==
    Up =>
        /\ pc \in {"written", "flushed", "synced", "failed"} => entries = idx0
        /\ (pc = "indexed" \/ (pc = "ready" /\ cmd.op = "SET")) =>
              /\ Len(entries) = Len(idx0) + 1
              /\ SubSeq(entries, 1, Len(idx0)) = idx0
        /\ Len(idx0) >= nReplayed /\ Len(idx0) <= Len(entries)
        /\ SubSeq(entries, 1, Len(idx0)) = idx0
        /\ Len(entries) = nReplayed + LivePuts
        /\ CleanAtStart =>
              nReplayed = Cardinality({i \in Old : Complete(i)})

\* one replayed record and one put of the same key: two entries
C16_Witness ==
    /\ pc = "ready" /\ cmd.op = "SET" /\ CleanAtStart
    /\ nReplayed = 1 /\ LivePuts = 1 /\ Len(entries) = 2
    /\ entries[1][1] = entries[2][1]


\* the header reads of a replay of the file advance by 8 bytes or more each,
\* stay in the file, and all but the last add one entry
ScanAdvances ==
    LET scan == ReplayScan(file, 0) IN
    /\ scan[1] = 0
    /\ \A i \in 1..(Len(scan) - 1) : scan[i + 1] >= scan[i] + HEADER_SIZE
    /\ scan[Len(scan)] <= Len(file)
    /\ Len(scan) <= (Len(file) \div HEADER_SIZE) + 1
    /\ Len(ReplayLog(file, << >>)) = Len(scan) - 1

\* C17 (as claimed): on every content of the log replay_log ends after finitely
\* many iterations, each advancing the scan by 8 bytes or more, and it does
\* not raise.
C17_ReplayEndsWithoutRaising ==
    /\ ScanAdvances
    /\ out.kind # "MemoryError"


\* where the record of an index entry begins in the log
RecordStart(e) == e[2] - Len(e[1]) - HEADER_SIZE

\* C18: in a running process, also after crashes and restarts, every index
\* entry lies inside the log behind its key and its header, which encodes the
\* two lengths; an entry that put stored is the entry replay computes for the
\* record that begins at the same offset, and on a log without a partial
\* record replay computes exactly the entries of the index.
C18_EntriesInsideLog ==
    Up =>
        /\ \A i \in 1..Len(entries) :
              LET e == entries[i] IN
              /\ e[2] >= HEADER_SIZE + Len(e[1])
              /\ e[2] + e[3] <= Len(file)
              /\ ReadAt(file, e[2] - Len(e[1]), Len(e[1])) = e[1]
              /\ ReadAt(file, RecordStart(e), HEADER_SIZE) = PackHeader(Len(e[1]), e[3])
        /\ LET again == ReplayLog(file, << >>) IN
           /\ \A i \in (nReplayed + 1)..Len(entries) : \A j \in 1..Len(again) :
                 RecordStart(again[j]) = RecordStart(entries[i]) => again[j] = entries[i]
           /\ (pc \in {"ready", "indexed"} /\ \A i \in 1..Len(written) : Complete(i)) =>
                 again = entries

\* after a crash that left a partial record and a restart, a put has stored
\* its entry behind that partial record
C18_Witness ==
    /\ pc = "indexed" /\ nFaults > 0
    /\ \E i \in 1..Len(written) : ~Complete(i)
    /\ Len(entries) > nReplayed
    /\ entries[Len(entries)][3] = 2

====
